---- MODULE Spec2Model ----
(***************************************************************************)
(* Model of examples/basic_operations.py: the call_daemon request/response *)
(* exchange over a Unix stream socket, the __main__ health check and       *)
(* list_apps, which consume what call_daemon returns.                       *)
(*                                                                         *)
(* Bytes are modelled as tokens [k, v]: one token stands for one lexical   *)
(* unit of the wire text (a brace, a comma, a "key":value member, a        *)
(* newline, ...).  A Python exception is modelled by its class name.       *)
(***************************************************************************)
EXTENDS Integers, Sequences, FiniteSets, TLC

\* ------------------------------------------------------------------ bounds
\* Number of call_daemon invocations (uuid4 draws) modelled in one run.
MaxInvocations == 2

\* Threads that may be inside call_daemon.  Thread 1 is the main thread.
Threads == {1, 2}
MainThread == 1

\* sock.recv(4096)
RecvSize == 4096
\* "v": 1
ProtocolVersion == 1

\* ------------------------------------------------------------------ tokens
Tok(k, v) == [k |-> k, v |-> v]
LB    == Tok("punct", "{")
RB    == Tok("punct", "}")
Comma == Tok("punct", ",")
SP    == Tok("ws", "SP")
NL    == Tok("ws", "NL")
Num   == Tok("num", "42")
Junk  == Tok("junk", "X")
BadByte == Tok("byte", "xFF")

MemberKeys == {"ok", "result", "error"}
IsWs(tok) == tok.k = "ws"
IsMember(tok) == tok.k \in MemberKeys

\* Python values
None == "None"
EmptyDict == "{}"
AppDict == "{app}"
UnserializableDict == "{app: object()}"
NoFields == [x \in {} |-> "x"]
NoValue == [kind |-> "none", fields |-> NoFields]
NumberValue == [kind |-> "number", fields |-> NoFields]
DictValue(f) == [kind |-> "dict", fields |-> f]
Put(f, key, val) == [x \in (DOMAIN f) \cup {key} |-> IF x = key THEN val ELSE f[x]]

\* What a finished call hands to its caller.
NoOutcome == [kind |-> "none", value |-> NoValue, exc |-> "none"]
Returned(v) == [kind |-> "returned", value |-> v, exc |-> "none"]
Raised(e) == [kind |-> "raised", value |-> NoValue, exc |-> e]

Min(a, b) == IF a < b THEN a ELSE b
Contains(s, tok) == \E i \in 1..Len(s) : s[i] = tok

\* ------------------------------------------------------ response decoding
\* bytes.decode(): UTF-8 decoding; an invalid byte raises.
BytesDecodable(b) == ~Contains(b, BadByte)

\* str.strip(): drops leading and trailing whitespace only.
RECURSIVE LStrip(_)
LStrip(s) == IF s # <<>> /\ IsWs(Head(s)) THEN LStrip(Tail(s)) ELSE s
RECURSIVE RStrip(_)
RStrip(s) == IF s # <<>> /\ IsWs(s[Len(s)]) THEN RStrip(SubSeq(s, 1, Len(s) - 1)) ELSE s
Strip(s) == RStrip(LStrip(s))

\* json.loads: whitespace between lexical units is skipped.
RECURSIVE SkipWs(_, _)
SkipWs(s, i) == IF i <= Len(s) /\ IsWs(s[i]) THEN SkipWs(s, i + 1) ELSE i

ScanBad == [good |-> FALSE, value |-> NoValue, next |-> 0]
ScanGood(v, n) == [good |-> TRUE, value |-> v, next |-> n]

\* Members of an object, from position i (just after "{" or ","); a repeated
\* key keeps the last value, as Python's dict does.
RECURSIVE ScanMembers(_, _, _)
ScanMembers(s, i, fields) ==
  LET j == SkipWs(s, i) IN
  IF j > Len(s) \/ ~IsMember(s[j]) THEN ScanBad
  ELSE LET f2 == Put(fields, s[j].k, s[j].v)
           k == SkipWs(s, j + 1) IN
       IF k > Len(s) THEN ScanBad
       ELSE IF s[k] = RB THEN ScanGood(DictValue(f2), k + 1)
       ELSE IF s[k] = Comma THEN ScanMembers(s, k + 1, f2)
       ELSE ScanBad

\* One JSON value starting at position i.
ScanValue(s, i) ==
  IF i > Len(s) THEN ScanBad
  ELSE IF s[i] = Num THEN ScanGood(NumberValue, i + 1)
  ELSE IF s[i] = LB
    THEN LET j == SkipWs(s, i + 1) IN
         IF j <= Len(s) /\ s[j] = RB THEN ScanGood(DictValue(NoFields), j + 1)
         ELSE ScanMembers(s, i + 1, NoFields)
  ELSE ScanBad

\* json.loads(text): one value, then nothing but whitespace ("Extra data").
JsonLoads(s) ==
  LET r == ScanValue(s, SkipWs(s, 1)) IN
  IF ~r.good THEN Raised("JSONDecodeError")
  ELSE IF SkipWs(s, r.next) <= Len(s) THEN Raised("JSONDecodeError")
  ELSE Returned(r.value)

\* Variant: a decoder that tidies the envelope, keeping only the member that
\* ok makes meaningful.
DecodeResponseNormalising(b) ==
  LET o == IF ~BytesDecodable(b) THEN Raised("UnicodeDecodeError") ELSE JsonLoads(Strip(b))
      f == o.value.fields
      drop == IF f["ok"] = "true" THEN {"error"} ELSE {"result"} IN
  IF o.kind = "returned" /\ o.value.kind = "dict" /\ "ok" \in DOMAIN f
    THEN Returned(DictValue([x \in (DOMAIN f) \ drop |-> f[x]]))
    ELSE o

\* json.loads(response.decode().strip())
DecodeResponse(b) ==
  IF ~BytesDecodable(b) THEN Raised("UnicodeDecodeError") ELSE JsonLoads(Strip(b))

\* ------------------------------------------------------- request encoding
\* params or {}
ParamsOrEmpty(p) == IF p \in {None, EmptyDict} THEN EmptyDict ELSE p

MakeRequest(id, method, params) ==
  [id |-> id, v |-> ProtocolVersion, method |-> method, params |-> ParamsOrEmpty(params)]

\* json.dumps raises TypeError on a value that is not JSON serializable.
Serializable(req) == req.params # UnserializableDict

\* (json.dumps(request) + "\n").encode(): the request object as one JSON text,
\* then the terminator.
EncodeRequest(req) == << Tok("json", req), NL >>

\* ------------------------------------------------- the daemon (peer side)
\* Response Envelope: ok, and result / error when present.  okLast is the
\* member order the daemon writes (ok first or ok last).
Absent == "absent"
Envs ==
  { e \in [ok : BOOLEAN, result : {Absent, "r1", "r2"}, error : {Absent, "e1"},
           okLast : BOOLEAN] :
      e.okLast => (e.result # Absent \/ e.error # Absent) }
NoEnv == [ok |-> FALSE, result |-> Absent, error |-> Absent, okLast |-> FALSE]

OkTok(e) == Tok("ok", IF e.ok THEN "true" ELSE "false")
EnvMembers(e) ==
  LET rest == (IF e.result # Absent THEN << Tok("result", e.result) >> ELSE << >>)
              \o (IF e.error # Absent THEN << Tok("error", e.error) >> ELSE << >>)
  IN IF e.okLast THEN rest \o << OkTok(e) >> ELSE << OkTok(e) >> \o rest

RECURSIVE JoinMembers(_)
JoinMembers(ms) ==
  IF Len(ms) <= 1 THEN ms ELSE << Head(ms), Comma >> \o JoinMembers(Tail(ms))

\* The record the daemon writes for an envelope, without its terminator.
Serialize(e) == << LB >> \o JoinMembers(EnvMembers(e)) \o << RB >>

\* The fields a client is to find in the envelope.
EnvFields(e) ==
  LET f1 == Put(NoFields, "ok", IF e.ok THEN "true" ELSE "false")
      f2 == IF e.result # Absent THEN Put(f1, "result", e.result) ELSE f1
  IN IF e.error # Absent THEN Put(f2, "error", e.error) ELSE f2

\* Bodies that are no Response Envelope: nothing, junk, an undecodable byte,
\* a scalar, objects without ok, and records cut short.
MalformedBodies ==
  { << >>, << Junk >>, << BadByte >>, << Num >>, << LB, RB >>,
    << LB, Tok("result", "r1"), RB >>, << LB, Tok("error", "e1"), RB >>,
    << LB >>, << LB, Tok("ok", "true") >>, << LB, Tok("ok", "true"), Comma >> }

\* What follows the body: nothing, the terminator (alone or after a blank), or
\* the terminator and more.
Tails ==
  { << >>, << NL >>, << SP, NL >>, << NL, Junk >>,
    << NL, LB, Tok("ok", "false"), RB, NL >> }

Servers ==
  { [wellformed |-> TRUE, env |-> e, body |-> Serialize(e), tail |-> tl, closes |-> c] :
      e \in Envs, tl \in Tails, c \in BOOLEAN }
  \cup
  { [wellformed |-> FALSE, env |-> NoEnv, body |-> b, tail |-> tl, closes |-> c] :
      b \in MalformedBodies, tl \in Tails, c \in BOOLEAN }

\* The daemon's answers when two threads call concurrently.
ConcServers ==
  { s \in Servers :
      /\ s.closes
      /\ \/ /\ s.wellformed /\ ~s.env.okLast /\ s.tail = << NL >>
            /\ \/ s.env.ok /\ s.env.result # Absent /\ s.env.error = Absent
               \/ ~s.env.ok /\ s.env.result = Absent /\ s.env.error # Absent
         \/ ~s.wellformed /\ s.body = << LB, Tok("ok", "true") >> /\ s.tail = << >> }

NoServer ==
  [wellformed |-> FALSE, env |-> NoEnv, body |-> << >>, tail |-> << >>, closes |-> FALSE]
Bytes(srv) == srv.body \o srv.tail

EndpointStates == {"absent", "stale", "listening"}

\* ------------------------------------------------------------------- state
VARIABLES
  endpoint,   \* SOCKET_PATH: no file, a file nobody listens on, or a listener
  issued,     \* uuid4 values drawn so far
  mainpc,     \* position of the __main__ block ("lib": module only imported)
  out,        \* what the presentation code has printed
  uncaught,   \* exception that ended __main__, or "none"
  pc,         \* per thread: position inside call_daemon
  request,    \* per thread: local request
  payload,    \* per thread: the encoded request bytes of line 30
  sock,       \* per thread: local sock: "none", "open", "connected", "closed"
  wire,       \* per channel: bytes the client has written
  server,     \* per channel: what the daemon answers on this connection
  pos,        \* per channel: bytes of the answer already received
  response,   \* per thread: local response buffer
  outcome,    \* per thread: value returned / exception raised by the call
  connects,   \* per thread: sock.connect calls of the current invocation
  sends,      \* per thread: sock.sendall calls of the current invocation
  reads       \* per thread: sock.recv calls that returned data

frame == << pc, request, payload, sock, response, outcome, connects, sends, reads >>
channel == << wire, server, pos >>
vars == << endpoint, issued, mainpc, out, uncaught, frame, channel >>

NoRequest == [id |-> 0, v |-> 0, method |-> "none", params |-> None]
Ended(t) == pc[t] \in {"returned", "raised"}

InitCommon ==
  /\ endpoint \in EndpointStates
  /\ issued = 0
  /\ out = << >>
  /\ uncaught = "none"
  /\ pc = [t \in Threads |-> "idle"]
  /\ request = [t \in Threads |-> NoRequest]
  /\ payload = [t \in Threads |-> << >>]
  /\ sock = [t \in Threads |-> "none"]
  /\ wire = [t \in Threads |-> << >>]
  /\ server = [t \in Threads |-> NoServer]
  /\ pos = [t \in Threads |-> 0]
  /\ response = [t \in Threads |-> << >>]
  /\ outcome = [t \in Threads |-> NoOutcome]
  /\ connects = [t \in Threads |-> 0]
  /\ sends = [t \in Threads |-> 0]
  /\ reads = [t \in Threads |-> 0]

\* Run as a script: the __main__ block drives the main thread.
Init == InitCommon /\ mainpc = "start"
\* Imported as a module: any thread may call call_daemon.
InitConc == InitCommon /\ mainpc = "lib"

ServersOffered == IF mainpc = "lib" THEN ConcServers ELSE Servers

\* --------------------------------------------------------------- call_daemon
\* Variant: one module-level socket used by every call.
SharedChannel(t) == MainThread
\* The socket of a call is the local of its own frame.
ChannelOf(t) == t

\* Variant: the socket is closed on the return path only.
ExitLeak(s) == s
\* Leaving the with block closes the socket.
ExitWith(s) == "closed"

\* Variant: a failure inside the with block reconnects and tries again.
RaiseRetry(t, e, inWith) ==
  IF inWith
    THEN /\ pc' = [pc EXCEPT ![t] = "connect"]
         /\ sock' = [sock EXCEPT ![t] = "open"]
         /\ UNCHANGED outcome
    ELSE /\ pc' = [pc EXCEPT ![t] = "raised"]
         /\ outcome' = [outcome EXCEPT ![t] = Raised(e)]
         /\ UNCHANGED sock

\* An exception leaves call_daemon: through the with block if it is entered.
Raise(t, e, inWith) ==
  /\ pc' = [pc EXCEPT ![t] = "raised"]
  /\ outcome' = [outcome EXCEPT ![t] = Raised(e)]
  /\ sock' = IF inWith THEN [sock EXCEPT ![t] = ExitWith(sock[t])] ELSE sock

\* Entering call_daemon(method, params): lines 21-26 build the request.
Enter(t, method, params) ==
  /\ issued < MaxInvocations
  /\ issued' = issued + 1
  /\ request' = [request EXCEPT ![t] = MakeRequest(issued + 1, method, params)]
  /\ pc' = [pc EXCEPT ![t] = "socket"]
  /\ payload' = [payload EXCEPT ![t] = << >>]
  /\ sock' = [sock EXCEPT ![t] = "none"]
  /\ response' = [response EXCEPT ![t] = << >>]
  /\ outcome' = [outcome EXCEPT ![t] = NoOutcome]
  /\ connects' = [connects EXCEPT ![t] = 0]
  /\ sends' = [sends EXCEPT ![t] = 0]
  /\ reads' = [reads EXCEPT ![t] = 0]
  /\ wire' = [wire EXCEPT ![ChannelOf(t)] = << >>]
  /\ server' = [server EXCEPT ![ChannelOf(t)] = NoServer]
  /\ pos' = [pos EXCEPT ![ChannelOf(t)] = 0]

\* with socket.socket(AF_UNIX, SOCK_STREAM) as sock: (or OSError, no socket)
SocketCreate(t) ==
  /\ pc[t] = "socket"
  /\ \/ /\ sock' = [sock EXCEPT ![t] = "open"]
        /\ pc' = [pc EXCEPT ![t] = "connect"]
        /\ UNCHANGED outcome
     \/ Raise(t, "OSError", FALSE)
  /\ UNCHANGED << endpoint, issued, mainpc, out, uncaught, request, payload,
                  response, connects, sends, reads, channel >>

\* sock.connect(str(SOCKET_PATH))
Connect(t) ==
  /\ pc[t] = "connect"
  /\ connects' = [connects EXCEPT ![t] = @ + 1]
  /\ IF endpoint = "listening"
       THEN /\ \E srv \in ServersOffered :
                 server' = [server EXCEPT ![ChannelOf(t)] = srv]
            /\ sock' = [sock EXCEPT ![t] = "connected"]
            /\ pc' = [pc EXCEPT ![t] = "encode"]
            /\ UNCHANGED outcome
       ELSE /\ Raise(t, IF endpoint = "absent" THEN "FileNotFoundError"
                                             ELSE "ConnectionRefusedError", TRUE)
            /\ UNCHANGED server
  /\ UNCHANGED << endpoint, issued, mainpc, out, uncaught, request, payload,
                  response, sends, reads, wire, pos >>

\* (json.dumps(request) + "\n").encode(), the argument of sendall
Encode(t) ==
  /\ pc[t] = "encode"
  /\ IF Serializable(request[t])
       THEN /\ payload' = [payload EXCEPT ![t] = EncodeRequest(request[t])]
            /\ pc' = [pc EXCEPT ![t] = "send"]
            /\ UNCHANGED << sock, outcome >>
       ELSE /\ Raise(t, "TypeError", TRUE)
            /\ UNCHANGED payload
  /\ UNCHANGED << endpoint, issued, mainpc, out, uncaught, request,
                  response, connects, sends, reads, channel >>

\* sock.sendall(...): all bytes are written, or the peer is gone part-way.
Send(t) ==
  /\ pc[t] = "send"
  /\ sends' = [sends EXCEPT ![t] = @ + 1]
  /\ \/ /\ wire' = [wire EXCEPT ![ChannelOf(t)] = @ \o payload[t]]
        /\ pc' = [pc EXCEPT ![t] = "recv"]
        /\ UNCHANGED << sock, outcome >>
     \/ /\ \E n \in 0..(Len(payload[t]) - 1) :
             wire' = [wire EXCEPT ![ChannelOf(t)] = @ \o SubSeq(payload[t], 1, n)]
        /\ Raise(t, "BrokenPipeError", TRUE)
  /\ UNCHANGED << endpoint, issued, mainpc, out, uncaught, request, payload,
                  response, connects, reads, server, pos >>

\* Variant: response = chunk
AccumulateOverwrite(resp, chunk) == chunk
\* response += chunk
Accumulate(resp, chunk) == resp \o chunk
\* if b"\n" in response: break
HasTerminator(resp) == Contains(resp, NL)

\* One turn of the while loop: chunk = sock.recv(4096), then lines 35-39.
\* recv hands over between 1 and 4096 of the bytes not yet received, b"" once
\* the peer has closed and nothing is left, or fails; it blocks otherwise.
Recv(t) ==
  LET c == ChannelOf(t)
      left == Len(Bytes(server[c])) - pos[c] IN
  /\ pc[t] = "recv"
  /\ \/ /\ \E n \in 1..Min(RecvSize, left) :
             LET chunk == SubSeq(Bytes(server[c]), pos[c] + 1, pos[c] + n)
                 resp == Accumulate(response[t], chunk) IN
             /\ pos' = [pos EXCEPT ![c] = @ + n]
             /\ reads' = [reads EXCEPT ![t] = @ + 1]
             /\ response' = [response EXCEPT ![t] = resp]
             /\ pc' = [pc EXCEPT ![t] = IF HasTerminator(resp) THEN "decode" ELSE "recv"]
        /\ UNCHANGED << sock, outcome >>
     \/ /\ left = 0 /\ server[c].closes
        /\ pc' = [pc EXCEPT ![t] = "decode"]
        /\ UNCHANGED << sock, outcome, pos, response, reads >>
     \/ /\ Raise(t, "ConnectionResetError", TRUE)
        /\ UNCHANGED << pos, response, reads >>
  /\ UNCHANGED << endpoint, issued, mainpc, out, uncaught, request, payload,
                  connects, sends, wire, server >>

\* return json.loads(response.decode().strip()), leaving the with block
Decode(t) ==
  /\ pc[t] = "decode"
  /\ LET o == DecodeResponse(response[t]) IN
       /\ outcome' = [outcome EXCEPT ![t] = o]
       /\ pc' = [pc EXCEPT ![t] = IF o.kind = "returned" THEN "returned" ELSE "raised"]
  /\ sock' = [sock EXCEPT ![t] = ExitWith(sock[t])]
  /\ UNCHANGED << endpoint, issued, mainpc, out, uncaught, request, payload,
                  response, connects, sends, reads, channel >>

CallStep(t) ==
  \/ SocketCreate(t) \/ Connect(t) \/ Encode(t) \/ Send(t) \/ Recv(t) \/ Decode(t)

\* ------------------------------------------------------------ the callers
\* dict.get(key): None when the key is missing.
Get(v, key) == IF key \in DOMAIN v.fields THEN v.fields[key] ELSE None
Truthy(x) == x \notin {None, "false"}

\* An exception nobody catches ends the script with a traceback.
Crash(e) ==
  /\ mainpc' = "crashed"
  /\ uncaught' = e
  /\ UNCHANGED << out, issued, frame, channel >>

\* health = call_daemon("health")
MainHealth ==
  /\ mainpc = "start"
  /\ Enter(MainThread, "health", None)
  /\ mainpc' = "health"
  /\ UNCHANGED << endpoint, out, uncaught >>

\* if not health.get("ok"): print remediation, exit(1); else print healthy
\* and enter list_apps() up to its call_daemon("fly.apps", {}).
MainCheck ==
  LET o == outcome[MainThread] IN
  /\ mainpc = "health"
  /\ Ended(MainThread)
  /\ IF o.kind = "raised" THEN Crash(o.exc)
     ELSE IF o.value.kind # "dict" THEN Crash("AttributeError")
     ELSE IF ~Truthy(Get(o.value, "ok"))
       THEN /\ out' = Append(out, Tok("print", "daemon not running"))
            /\ mainpc' = "exit1"
            /\ UNCHANGED << uncaught, issued, frame, channel >>
       ELSE /\ out' = Append(out, Tok("print", "healthy"))
            /\ Enter(MainThread, "fly.apps", EmptyDict)
            /\ mainpc' = "list_apps"
            /\ UNCHANGED uncaught
  /\ UNCHANGED endpoint

\* list_apps(), lines 51-63, on the value call_daemon returned.
ListApps ==
  LET o == outcome[MainThread] IN
  /\ mainpc = "list_apps"
  /\ Ended(MainThread)
  /\ IF o.kind = "raised" THEN Crash(o.exc)
     ELSE IF o.value.kind # "dict" THEN Crash("AttributeError")
     ELSE IF Truthy(Get(o.value, "ok")) /\ "result" \notin DOMAIN o.value.fields
       THEN Crash("KeyError")
     ELSE /\ out' = Append(out,
                IF Truthy(Get(o.value, "ok"))
                  THEN Tok("apps", o.value.fields["result"])
                  ELSE Tok("error", Get(o.value, "error")))
          /\ mainpc' = "done"
          /\ UNCHANGED << uncaught, issued, frame, channel >>
  /\ UNCHANGED endpoint

\* Calls made by other code that imported the module.
ConcCalls ==
  { << "health", None >>, << "fly.status", AppDict >>,
    << "fly.scale", UnserializableDict >> }

ConcCall(t) ==
  /\ pc[t] = "idle"
  /\ \E c \in ConcCalls : Enter(t, c[1], c[2])
  /\ UNCHANGED << endpoint, mainpc, out, uncaught >>

\* The caller takes the value or the exception; the frame and its closed
\* connection are gone.
Reap(t) ==
  /\ Ended(t)
  /\ pc' = [pc EXCEPT ![t] = "idle"]
  /\ request' = [request EXCEPT ![t] = NoRequest]
  /\ payload' = [payload EXCEPT ![t] = << >>]
  /\ sock' = [sock EXCEPT ![t] = "none"]
  /\ response' = [response EXCEPT ![t] = << >>]
  /\ outcome' = [outcome EXCEPT ![t] = NoOutcome]
  /\ connects' = [connects EXCEPT ![t] = 0]
  /\ sends' = [sends EXCEPT ![t] = 0]
  /\ reads' = [reads EXCEPT ![t] = 0]
  /\ wire' = [wire EXCEPT ![ChannelOf(t)] = << >>]
  /\ server' = [server EXCEPT ![ChannelOf(t)] = NoServer]
  /\ pos' = [pos EXCEPT ![ChannelOf(t)] = 0]
  /\ UNCHANGED << endpoint, issued, mainpc, out, uncaught >>

Next == MainHealth \/ MainCheck \/ ListApps \/ CallStep(MainThread)
Spec == Init /\ [][Next]_vars

NextConc == \E t \in Threads : ConcCall(t) \/ CallStep(t) \/ Reap(t)
SpecConc == InitConc /\ [][NextConc]_vars

\* ==================================================================== claims
\* The error classes of the protocol description, by Python exception.
ErrorClass(e) ==
  CASE e \in {"FileNotFoundError", "ConnectionRefusedError"} -> "UnavailableError"
    [] e \in {"BrokenPipeError", "ConnectionResetError", "OSError"} -> "TransportError"
    [] e \in {"JSONDecodeError", "UnicodeDecodeError"} -> "MalformedResponseError"
    [] OTHER -> "other"

\* The call ended because sending or receiving failed.
IoFailed(t) == outcome[t].exc \in {"BrokenPipeError", "ConnectionResetError"}
\* The call got a connection.
Accepted(t) == server[t] # NoServer

RECURSIVE FirstNL(_, _)
FirstNL(s, i) == IF i > Len(s) THEN 0 ELSE IF s[i] = NL THEN i ELSE FirstNL(s, i + 1)
UpToFirstNL(s) == SubSeq(s, 1, FirstNL(s, 1))

\* The daemon sends exactly one record and its terminator.
OneRecord(srv) == srv.tail = << NL >> /\ ~Contains(srv.body, NL)
RemediationPrinted == Contains(out, Tok("print", "daemon not running"))

\* C1: when a call of call_daemon has ended, by return or by any exception,
\* its socket is not open: it was never created or it has been closed.
C1_ChannelClosedOnEveryExit ==
  \A t \in Threads : Ended(t) => sock[t] \in {"none", "closed"}

\* C1 witness: a call that connected, read a response and failed to parse it
\* has ended with its socket closed.
C1_Witness ==
  \E t \in Threads :
    /\ pc[t] = "raised" /\ outcome[t].exc = "JSONDecodeError"
    /\ response[t] # << >> /\ sock[t] = "closed"

\* C2: if the daemon closes the stream having sent no newline, the call ends
\* with a TransportError or a MalformedResponseError, whatever was sent before.
C2_NoTerminatorIsError ==
  \A t \in Threads :
    (Ended(t) /\ Accepted(t) /\ server[t].closes /\ ~Contains(Bytes(server[t]), NL))
      => /\ outcome[t].kind = "raised"
         /\ ErrorClass(outcome[t].exc) \in {"TransportError", "MalformedResponseError"}

\* C3: a call never returns a value that is not an object with the field ok:
\* such a record makes decoding fail with MalformedResponseError.
C3_MissingOkIsMalformed ==
  \A t \in Threads :
    pc[t] = "returned"
      => outcome[t].value.kind = "dict" /\ "ok" \in DOMAIN outcome[t].value.fields

\* C4: when the daemon sends one well-formed envelope and its terminator and
\* the transport does not fail, the call returns exactly the members sent (ok,
\* result, error, unchanged), and list_apps prints the result when ok is true
\* and the error string when ok is false.
C4_EnvelopePassedThrough ==
  /\ \A t \in Threads :
       (Ended(t) /\ server[t].wellformed /\ OneRecord(server[t]) /\ ~IoFailed(t))
         => outcome[t] = Returned(DictValue(EnvFields(server[t].env)))
  /\ (mainpc = "done" /\ server[MainThread].wellformed /\ OneRecord(server[MainThread]))
       => LET e == server[MainThread].env IN
          out[Len(out)] = IF e.ok THEN Tok("apps", e.result)
                          ELSE Tok("error", IF e.error = Absent THEN None ELSE e.error)

\* C4 witness: a call has returned an ok = false envelope carrying the error
\* string the daemon sent.
C4_Witness ==
  \E t \in Threads :
    /\ pc[t] = "returned" /\ server[t].wellformed /\ OneRecord(server[t])
    /\ ~server[t].env.ok /\ server[t].env.error = "e1"
    /\ outcome[t].value.fields["error"] = "e1"
    /\ outcome[t].value.fields["ok"] = "false"

\* C5: within one invocation of call_daemon there is at most one connect and
\* at most one sendall, whatever the outcome.
C5_OneAttempt ==
  \A t \in Threads : connects[t] <= 1 /\ sends[t] <= 1

\* C5 witness: a call that connected and sent its request failed while
\* receiving, and ended after that single attempt.
C5_Witness ==
  \E t \in Threads :
    /\ pc[t] = "raised" /\ outcome[t].exc = "ConnectionResetError"
    /\ connects[t] = 1 /\ sends[t] = 1

\* C6: with no listener at the endpoint the call fails with UnavailableError
\* and writes nothing; a health check that failed this way leads to the "start
\* the daemon" message, and that message is printed for no other reason.
C6_UnavailableDrivesRemediation ==
  /\ \A t \in Threads :
       (Ended(t) /\ connects[t] = 1 /\ endpoint # "listening")
         => /\ ErrorClass(outcome[t].exc) = "UnavailableError"
            /\ wire[t] = << >>
  /\ (mainpc = "crashed" /\ ErrorClass(uncaught) = "UnavailableError")
       => RemediationPrinted
  /\ RemediationPrinted => endpoint # "listening"

\* C7: with two threads inside call_daemon at once, each thread's buffer holds
\* only bytes of the answer sent on its own connection, each connection
\* carries only that thread's request, and what a thread returns is the
\* decoding of its own connection's bytes.
C7_NoCrossTalk ==
  \A t \in Threads :
    /\ response[t] = SubSeq(Bytes(server[t]), 1, pos[t])
    /\ wire[t] = SubSeq(EncodeRequest(request[t]), 1, Len(wire[t]))
    /\ (Ended(t) /\ Accepted(t) /\ outcome[t].exc \notin {"BrokenPipeError", "ConnectionResetError", "TypeError"})
         => outcome[t] = DecodeResponse(SubSeq(Bytes(server[t]), 1, pos[t]))
    /\ (Ended(t) /\ server[t].wellformed /\ OneRecord(server[t]) /\ ~IoFailed(t)
          /\ outcome[t].exc # "TypeError")
         => outcome[t] = Returned(DictValue(EnvFields(server[t].env)))

\* C7 witness: both threads have returned, after reading in turns, each the
\* envelope of its own connection, and the two envelopes differ.
C7_Witness ==
  /\ pc[1] = "returned" /\ pc[2] = "returned"
  /\ server[1].env # server[2].env
  /\ reads[1] > 1 /\ reads[2] > 1
  /\ outcome[1].value.fields = EnvFields(server[1].env)
  /\ outcome[2].value.fields = EnvFields(server[2].env)

\* C8: the request is encoded before connect is called, the whole request is
\* sent before any response byte is read, a call that returns has a Response
\* Envelope (an object with ok), and a call that raises has none.
C8_PhaseOrder ==
  \A t \in Threads :
    /\ connects[t] > 0 => payload[t] # << >>
    /\ response[t] # << >> => (payload[t] # << >> /\ wire[t] = payload[t])
    /\ pc[t] = "returned"
         => outcome[t].value.kind = "dict" /\ "ok" \in DOMAIN outcome[t].value.fields
    /\ pc[t] = "raised" => outcome[t].value = NoValue

\* C9: what a call decodes is the received bytes up to the first newline:
\* nothing after the first newline is in the buffer or changes the outcome.
C9_DecodesUpToFirstTerminator ==
  \A t \in Threads :
    (Ended(t) /\ Accepted(t) /\ ~IoFailed(t) /\ Contains(response[t], NL))
      => /\ response[t] = UpToFirstNL(Bytes(server[t]))
         /\ outcome[t] = DecodeResponse(UpToFirstNL(Bytes(server[t])))

\* C10: when the daemon sends one newline-terminated record, in whatever
\* chunks it arrives, the loop goes on while the buffer has no newline, ends
\* with the whole record in the buffer, and the call's outcome is that of
\* decoding the record received in one piece.
C10_ChunkingIndependent ==
  \A t \in Threads :
    OneRecord(server[t]) =>
      /\ pc[t] = "recv" => (~HasTerminator(response[t]) /\ pos[t] < Len(Bytes(server[t])))
      /\ pc[t] = "decode" => response[t] = Bytes(server[t])
      /\ (Ended(t) /\ ~IoFailed(t)) => outcome[t] = DecodeResponse(Bytes(server[t]))

\* C10 witness: a record that arrived in three or more chunks has been decoded
\* and returned.
C10_Witness ==
  \E t \in Threads :
    /\ pc[t] = "returned" /\ OneRecord(server[t]) /\ reads[t] >= 3
    /\ outcome[t] = DecodeResponse(Bytes(server[t]))

====
